---- MODULE Spec2Model ----
(***************************************************************************)
(* RESTCatalog (pypaimon/catalog/rest/rest_catalog.py): the catalog facade *)
(* over the remote metadata service.  Text values are sequences of         *)
(* one-character strings, so that parsing a qualified name really splits   *)
(* it; option keys are plain strings.                                      *)
(***************************************************************************)
EXTENDS FiniteSets, Integers, Sequences, TLC

VARIABLES
    tbl,                 \* remote service: its entry for table d.t, or Absent
    db,                  \* remote service: its entry for database d, or Absent
    ver,                 \* number of changes the remote table entry has seen
    data_token_enabled,  \* self.data_token_enabled, captured by __init__
    pc,                  \* per caller: position inside the current call
    call,                \* per caller: the operation called and its arguments
    identifier,          \* per caller: the local `identifier` of get_table
    response,            \* per caller: the response object of the current call
    seen,                \* per caller: the remote entry as it was when fetched
    fetchVer,            \* per caller: value of ver when fetched
    metadata,            \* per caller: the TableMetadata built by this call
    outcome,             \* per caller: what the last call returned or raised
    calls                \* per caller: remote calls issued by the last call

vars == <<tbl, db, ver, data_token_enabled, pc, call, identifier, response, seen,
          fetchVer, metadata, outcome, calls>>

(* ------------------------------ bounds --------------------------------- *)

MaxChanges == 2          \* remote changes to the table entry in one run
MaxLen == 3              \* longest PropertyChange list given to alter_database

Callers == {"c1", "c2"}
MainCaller == "c1"

(* ------------------------------ values --------------------------------- *)

None == <<"None">>               \* Python None where a text value is expected
NoneObj == [none |-> TRUE]       \* Python None where an object is expected
Absent == [absent |-> TRUE]      \* the remote service has no such entry

PATH == "path"                   \* CoreOptions.PATH
BRANCH == "branch"               \* CoreOptions.BRANCH
DB_LOCATION_PROP == "location"   \* Catalog.DB_LOCATION_PROP

TableKeys == {PATH, BRANCH, "owner"}
DbKeys == {DB_LOCATION_PROP, "owner"}

Declared == <<"s">>              \* a value declared in the schema / database
Audited == <<"a">>               \* a value carried by the audit fields
PathValue == <<"p">>             \* the storage path the service reports
LocationValue == <<"l">>         \* the database location the service reports

DbName == <<"d">>
TableName == <<"t">>
BranchedName == <<"t", ".", "b">>

OptionMaps(K, V) == UNION {[D -> V] : D \in SUBSET K}

TableEntries ==
    [name : {TableName, BranchedName},
     schema : [fields : {"cols"}, options : OptionMaps(TableKeys, {Declared})],
     path : {PathValue},
     audit : OptionMaps(TableKeys, {Audited}),
     is_external : BOOLEAN,
     id : {"u1", "u2"}]

DbEntries ==
    [options : OptionMaps(DbKeys, {Declared}),
     location : {LocationValue},
     audit : OptionMaps(DbKeys, {Audited})]

(* ----------------------------- Identifier ------------------------------ *)

RECURSIVE SplitFrom(_, _, _)
SplitFrom(s, i, acc) ==
    IF i > Len(s) THEN acc
    ELSE IF s[i] = "."
         THEN SplitFrom(s, i + 1, Append(acc, <<>>))
         ELSE SplitFrom(s, i + 1,
                        [acc EXCEPT ![Len(acc)] = Append(acc[Len(acc)], s[i])])

Split(s) == SplitFrom(s, 1, << <<>> >>)

Identifier(database, table, branch) ==
    [database |-> database, table |-> table, branch |-> branch]

MalformedIdentifierError == [type |-> "MalformedIdentifierError"]

\* Identifier.from_string: database.table[.branch]; empty database or table
\* segments are malformed.
from_string(full_name) ==
    LET parts == Split(full_name) IN
    IF Len(parts) \in {2, 3} /\ \A i \in 1..Len(parts) : parts[i] # <<>>
    THEN [ok |-> TRUE,
          value |-> Identifier(parts[1], parts[2],
                               IF Len(parts) = 3 THEN parts[3] ELSE None)]
    ELSE [ok |-> FALSE, error |-> MalformedIdentifierError]

\* Identifier.create(db, name): the identifier whose qualified name is
\* db "." name; its branch is the one that name encodes, if any.
Identifier_create(database, object_name) ==
    from_string(database \o <<".">> \o object_name).value

get_database_name(id) == id.database

get_branch_name(id) == id.branch

ValidStrings == { <<"d", ".", "t">>, <<"d", ".", "t", ".", "b">> }
MalformedStrings == { <<".", "t">>, <<"d", ".">>, <<".">> }
InputStrings == ValidStrings \cup MalformedStrings
InputIdentifiers == {Identifier(DbName, TableName, None),
                     Identifier(DbName, TableName, <<"b">>)}

\* A Union[str, Identifier] argument, with its runtime type.
StrArg(s) == [type |-> "str", value |-> s]
IdentifierArg(id) == [type |-> "Identifier", value |-> id]
isinstance_Identifier(arg) == arg.type = "Identifier"

ValidArgs == {StrArg(s) : s \in ValidStrings}
                \cup {IdentifierArg(id) : id \in InputIdentifiers}
MalformedArgs == {StrArg(s) : s \in MalformedStrings}
InputArgs == ValidArgs \cup MalformedArgs
ConcurrentArgs == {StrArg(s) : s \in ValidStrings \cup {<<"d", ".">>}}

(* ------------------------ response / data objects ---------------------- *)

\* AuditRESTResponse.put_audit_options_to(options): the audit pairs of the
\* response are written onto options, replacing colliding keys.
put_audit_options_to(resp, options) == resp.audit @@ options

\* Schema.copy(options): a new Schema with the options replaced.
schema_copy(schema, options) == [schema EXCEPT !.options = options]

TableMetadata(schema, is_external, uuid) ==
    [schema |-> schema, is_external |-> is_external, uuid |-> uuid]

Database(name, options) == [name |-> name, properties |-> options]

RESTTokenFileIO(id, path) == [identifier |-> id, path |-> path]

\* Truth value of what api.options.get(DATA_TOKEN_ENABLED) returned.
Truthy(v) == v = "True"

TokenFlags == {"True", "False", "None"}

(* ------------------------------ RESTCatalog ---------------------------- *)

\* Variant: the storage path is written after the audit options.
to_table_metadata_path_last(database, resp) ==
    LET schema == resp.schema
        options0 == schema.options
        options1 == put_audit_options_to(resp, options0)
        options2 == (PATH :> resp.path) @@ options1
        id == Identifier_create(database, resp.name)
        options3 == IF get_branch_name(id) # None
                    THEN (BRANCH :> get_branch_name(id)) @@ options2
                    ELSE options2
    IN  TableMetadata(schema_copy(schema, options3), resp.is_external, resp.id)

to_table_metadata(database, resp) ==
    LET schema == resp.schema
        options0 == schema.options
        options1 == (PATH :> resp.path) @@ options0
        options2 == put_audit_options_to(resp, options1)
        id == Identifier_create(database, resp.name)
        options3 == IF get_branch_name(id) # None
                    THEN (BRANCH :> get_branch_name(id)) @@ options2
                    ELSE options2
    IN  TableMetadata(schema_copy(schema, options3), resp.is_external, resp.id)

\* Variant: a token accessor only for identifiers that carry a branch.
file_io_for_data_by_branch(path, id) ==
    IF Truthy(data_token_enabled) /\ get_branch_name(id) # None
    THEN RESTTokenFileIO(id, path)
    ELSE NoneObj

file_io_for_data(path, id) ==
    IF Truthy(data_token_enabled) THEN RESTTokenFileIO(id, path) ELSE NoneObj

Returned(v) == [kind |-> "returned", value |-> v]
Raised(e) == [kind |-> "raised", error |-> e]
NoOutcome == [kind |-> "none"]

Call(op, args) == [op |-> op, args |-> args]
NoCall == [op |-> "none"]

RemoteCall(api, args) == [api |-> api, args |-> args]

TableNotFoundError == [type |-> "TableNotFoundError"]
DatabaseNotFoundError == [type |-> "DatabaseNotFoundError"]
NotImplementedError == [type |-> "ValueError", message |-> "Not implemented"]

\* The error taxonomy: the kind of error a raised exception stands for.
ErrorKind(e) ==
    IF e = NotImplementedError THEN "UnsupportedOperationError"
    ELSE IF e.type \in {"TableNotFoundError", "DatabaseNotFoundError"}
         THEN "NotFoundError"
         ELSE e.type

\* A call starts: the locals of the previous call are gone.
Begin(c, op, args) ==
    /\ pc[c] = "idle"
    /\ call' = [call EXCEPT ![c] = Call(op, args)]
    /\ fetchVer' = [fetchVer EXCEPT ![c] = 0]
    /\ metadata' = [metadata EXCEPT ![c] = NoneObj]

\* Variant: the table is requested from the service before the argument is
\* converted.
GetTable_fetch_first(c, arg) ==
    /\ Begin(c, "get_table", <<arg>>)
    /\ LET parsed == IF isinstance_Identifier(arg)
                     THEN [ok |-> TRUE, value |-> arg.value]
                     ELSE from_string(arg.value)
       IN  IF parsed.ok
           THEN /\ identifier' = [identifier EXCEPT ![c] = parsed.value]
                /\ pc' = [pc EXCEPT ![c] = "load_table"]
                /\ outcome' = [outcome EXCEPT ![c] = NoOutcome]
                /\ calls' = [calls EXCEPT ![c] = <<>>]
           ELSE /\ identifier' = [identifier EXCEPT ![c] = NoneObj]
                /\ pc' = pc
                /\ outcome' = [outcome EXCEPT ![c] = Raised(parsed.error)]
                /\ calls' = [calls EXCEPT ![c] =
                                <<RemoteCall("get_table", <<arg.value>>)>>]
    /\ response' = [response EXCEPT ![c] = NoneObj]
    /\ seen' = [seen EXCEPT ![c] = NoneObj]
    /\ UNCHANGED <<tbl, db, ver, data_token_enabled>>

\* get_table, up to the call of CatalogUtils.load_table.
GetTable(c, arg) ==
    /\ Begin(c, "get_table", <<arg>>)
    /\ LET parsed == IF isinstance_Identifier(arg)
                     THEN [ok |-> TRUE, value |-> arg.value]
                     ELSE from_string(arg.value)
       IN  IF parsed.ok
           THEN /\ identifier' = [identifier EXCEPT ![c] = parsed.value]
                /\ pc' = [pc EXCEPT ![c] = "load_table"]
                /\ outcome' = [outcome EXCEPT ![c] = NoOutcome]
           ELSE /\ identifier' = [identifier EXCEPT ![c] = NoneObj]
                /\ pc' = pc
                /\ outcome' = [outcome EXCEPT ![c] = Raised(parsed.error)]
    /\ response' = [response EXCEPT ![c] = NoneObj]
    /\ seen' = [seen EXCEPT ![c] = NoneObj]
    /\ calls' = [calls EXCEPT ![c] = <<>>]
    /\ UNCHANGED <<tbl, db, ver, data_token_enabled>>

\* Variant: the options are written into the schema of the response itself
\* (no copy of schema.options).
LoadTableMetadata_in_place(c) ==
    /\ pc[c] = "load_table"
    /\ calls' = [calls EXCEPT ![c] =
                    Append(@, RemoteCall("get_table", <<identifier[c]>>))]
    /\ fetchVer' = [fetchVer EXCEPT ![c] = ver]
    /\ seen' = [seen EXCEPT ![c] = tbl]
    /\ IF tbl = Absent
       THEN /\ pc' = [pc EXCEPT ![c] = "idle"]
            /\ outcome' = [outcome EXCEPT ![c] = Raised(TableNotFoundError)]
            /\ UNCHANGED <<response, metadata>>
       ELSE /\ response' = [response EXCEPT ![c] =
                   [tbl EXCEPT !.schema.options =
                       to_table_metadata(get_database_name(identifier[c]),
                                         tbl).schema.options]]
            /\ metadata' = [metadata EXCEPT ![c] =
                   to_table_metadata(get_database_name(identifier[c]), tbl)]
            /\ pc' = [pc EXCEPT ![c] = "bind"]
            /\ UNCHANGED outcome
    /\ UNCHANGED <<tbl, db, ver, data_token_enabled, call, identifier>>

\* Variant: a response another caller holds is used instead of a fetch.
LoadTableMetadata_cached(c) ==
    /\ pc[c] = "load_table"
    /\ calls' = [calls EXCEPT ![c] =
                    Append(@, RemoteCall("get_table", <<identifier[c]>>))]
    /\ fetchVer' = [fetchVer EXCEPT ![c] = ver]
    /\ seen' = [seen EXCEPT ![c] = tbl]
    /\ IF tbl = Absent
       THEN /\ pc' = [pc EXCEPT ![c] = "idle"]
            /\ outcome' = [outcome EXCEPT ![c] = Raised(TableNotFoundError)]
            /\ UNCHANGED <<response, metadata>>
       ELSE /\ LET cached == {o \in Callers \ {c} : response[o] # NoneObj}
                    resp == IF cached = {} THEN tbl
                            ELSE response[CHOOSE o \in cached : TRUE]
                IN  /\ response' = [response EXCEPT ![c] = resp]
                    /\ metadata' = [metadata EXCEPT ![c] =
                           to_table_metadata(
                               get_database_name(identifier[c]), resp)]
            /\ pc' = [pc EXCEPT ![c] = "bind"]
            /\ UNCHANGED outcome
    /\ UNCHANGED <<tbl, db, ver, data_token_enabled, call, identifier>>

\* load_table_metadata, called by CatalogUtils.load_table as metadata_loader:
\* api.get_table, then to_table_metadata on the response.
LoadTableMetadata(c) ==
    /\ pc[c] = "load_table"
    /\ calls' = [calls EXCEPT ![c] =
                    Append(@, RemoteCall("get_table", <<identifier[c]>>))]
    /\ fetchVer' = [fetchVer EXCEPT ![c] = ver]
    /\ seen' = [seen EXCEPT ![c] = tbl]
    /\ IF tbl = Absent
       THEN /\ pc' = [pc EXCEPT ![c] = "idle"]
            /\ outcome' = [outcome EXCEPT ![c] = Raised(TableNotFoundError)]
            /\ UNCHANGED <<response, metadata>>
       ELSE /\ response' = [response EXCEPT ![c] = tbl]
            /\ metadata' = [metadata EXCEPT ![c] =
                   to_table_metadata(get_database_name(identifier[c]), tbl)]
            /\ pc' = [pc EXCEPT ![c] = "bind"]
            /\ UNCHANGED outcome
    /\ UNCHANGED <<tbl, db, ver, data_token_enabled, call, identifier>>

\* CatalogUtils.load_table after the metadata is loaded: resolve file access
\* for the requested identifier and the final storage path, return the handle.
LoadTableReturn(c) ==
    /\ pc[c] = "bind"
    /\ LET path == metadata[c].schema.options[PATH]
           io == file_io_for_data(path, identifier[c])
       IN  outcome' = [outcome EXCEPT ![c] =
               Returned([identifier |-> identifier[c],
                         metadata |-> metadata[c],
                         file_io |-> io])]
    /\ pc' = [pc EXCEPT ![c] = "idle"]
    /\ UNCHANGED <<tbl, db, ver, data_token_enabled, call, identifier,
                   response, seen, fetchVer, metadata, calls>>

(* ---------------------------- PropertyChange --------------------------- *)

SetProperty(k, v) == [kind |-> "Set", key |-> k, value |-> v]
RemoveProperty(k) == [kind |-> "Remove", key |-> k]

PropertyKeys == {"a", "b"}
PropertyChanges ==
    {SetProperty("a", 1), SetProperty("a", 2), SetProperty("b", 2),
     RemoveProperty("a"), RemoveProperty("b")}

ChangeLists == UNION {[1..n -> PropertyChanges] : n \in 0..MaxLen}

\* One step of the fold: a later change to a key replaces what an earlier
\* change to that key left.
ApplyChange(acc, change) ==
    IF change.kind = "Set"
    THEN [set_properties |->
              (change.key :> change.value) @@ acc.set_properties,
          remove_keys |-> acc.remove_keys \ {change.key}]
    ELSE [set_properties |->
              [k \in DOMAIN acc.set_properties \ {change.key} |->
                  acc.set_properties[k]],
          remove_keys |-> acc.remove_keys \cup {change.key}]

RECURSIVE FoldChanges(_, _, _)
FoldChanges(changes, i, acc) ==
    IF i > Len(changes) THEN acc
    ELSE FoldChanges(changes, i + 1, ApplyChange(acc, changes[i]))

\* PropertyChange.get_set_properties_to_remove_keys(changes)
get_set_properties_to_remove_keys(changes) ==
    FoldChanges(changes, 1, [set_properties |-> <<>>, remove_keys |-> {}])

(* --------------------------- database operations ----------------------- *)

\* Variant: an absent database yields None instead of the error.
GetDatabase_swallow(c, name) ==
    /\ Begin(c, "get_database", <<name>>)
    /\ identifier' = [identifier EXCEPT ![c] = NoneObj]
    /\ calls' = [calls EXCEPT ![c] = <<RemoteCall("get_database", <<name>>)>>]
    /\ seen' = [seen EXCEPT ![c] = db]
    /\ IF db = Absent
       THEN /\ outcome' = [outcome EXCEPT ![c] = Returned(NoneObj)]
            /\ response' = [response EXCEPT ![c] = NoneObj]
       ELSE LET options0 == db.options
                options1 == (DB_LOCATION_PROP :> db.location) @@ options0
                options2 == put_audit_options_to(db, options1)
            IN  \* options is response.options itself, written in place
                /\ response' = [response EXCEPT ![c] =
                                   [db EXCEPT !.options = options2]]
                /\ outcome' = [outcome EXCEPT ![c] =
                                   Returned(Database(name, options2))]
    /\ pc' = pc
    /\ UNCHANGED <<tbl, db, ver, data_token_enabled>>

\* Variant: the location is written only when the key is not there yet.
GetDatabase_if_absent(c, name) ==
    /\ Begin(c, "get_database", <<name>>)
    /\ identifier' = [identifier EXCEPT ![c] = NoneObj]
    /\ calls' = [calls EXCEPT ![c] = <<RemoteCall("get_database", <<name>>)>>]
    /\ seen' = [seen EXCEPT ![c] = db]
    /\ IF db = Absent
       THEN /\ outcome' = [outcome EXCEPT ![c] = Raised(DatabaseNotFoundError)]
            /\ response' = [response EXCEPT ![c] = NoneObj]
       ELSE LET options0 == db.options
                options1 == options0 @@ (DB_LOCATION_PROP :> db.location)
                options2 == put_audit_options_to(db, options1)
            IN  \* options is response.options itself, written in place
                /\ response' = [response EXCEPT ![c] =
                                   [db EXCEPT !.options = options2]]
                /\ outcome' = [outcome EXCEPT ![c] =
                                   Returned(Database(name, options2))]
    /\ pc' = pc
    /\ UNCHANGED <<tbl, db, ver, data_token_enabled>>

\* get_database: api.get_database raises when the database is absent, so the
\* response is an object wherever it is used and the final test "response is
\* not None" always passes.
GetDatabase(c, name) ==
    /\ Begin(c, "get_database", <<name>>)
    /\ identifier' = [identifier EXCEPT ![c] = NoneObj]
    /\ calls' = [calls EXCEPT ![c] = <<RemoteCall("get_database", <<name>>)>>]
    /\ seen' = [seen EXCEPT ![c] = db]
    /\ IF db = Absent
       THEN /\ outcome' = [outcome EXCEPT ![c] = Raised(DatabaseNotFoundError)]
            /\ response' = [response EXCEPT ![c] = NoneObj]
       ELSE LET options0 == db.options
                options1 == (DB_LOCATION_PROP :> db.location) @@ options0
                options2 == put_audit_options_to(db, options1)
            IN  \* options is response.options itself, written in place
                /\ response' = [response EXCEPT ![c] =
                                   [db EXCEPT !.options = options2]]
                /\ outcome' = [outcome EXCEPT ![c] =
                                   Returned(Database(name, options2))]
    /\ pc' = pc
    /\ UNCHANGED <<tbl, db, ver, data_token_enabled>>

\* Variant: one remote call per change instead of one for the reduced list.
AlterDatabase_per_change(c, name, changes) ==
    /\ Begin(c, "alter_database", <<name, changes>>)
    /\ identifier' = [identifier EXCEPT ![c] = NoneObj]
    /\ response' = [response EXCEPT ![c] = NoneObj]
    /\ seen' = [seen EXCEPT ![c] = NoneObj]
    /\ calls' = [calls EXCEPT ![c] =
           [i \in 1..Len(changes) |->
               LET reduced == get_set_properties_to_remove_keys(<<changes[i]>>)
               IN  RemoteCall("alter_database",
                              <<name, reduced.remove_keys,
                                reduced.set_properties>>)]]
    /\ outcome' = [outcome EXCEPT ![c] = Returned(NoneObj)]
    /\ pc' = pc
    /\ UNCHANGED <<tbl, db, ver, data_token_enabled>>

AlterDatabase(c, name, changes) ==
    /\ Begin(c, "alter_database", <<name, changes>>)
    /\ identifier' = [identifier EXCEPT ![c] = NoneObj]
    /\ response' = [response EXCEPT ![c] = NoneObj]
    /\ seen' = [seen EXCEPT ![c] = NoneObj]
    /\ LET reduced == get_set_properties_to_remove_keys(changes)
       IN  calls' = [calls EXCEPT ![c] =
               <<RemoteCall("alter_database",
                            <<name, reduced.remove_keys,
                              reduced.set_properties>>)>>]
    /\ outcome' = [outcome EXCEPT ![c] = Returned(NoneObj)]
    /\ pc' = pc
    /\ UNCHANGED <<tbl, db, ver, data_token_enabled>>

\* Variant: create_table returns without doing anything.
CreateTable_no_op(c, arg, ignore_if_exists) ==
    /\ Begin(c, "create_table", <<arg, ignore_if_exists>>)
    /\ identifier' = [identifier EXCEPT ![c] = NoneObj]
    /\ response' = [response EXCEPT ![c] = NoneObj]
    /\ seen' = [seen EXCEPT ![c] = NoneObj]
    /\ calls' = [calls EXCEPT ![c] = <<>>]
    /\ outcome' = [outcome EXCEPT ![c] =
                      Returned(NoneObj)]
    /\ pc' = pc
    /\ UNCHANGED <<tbl, db, ver, data_token_enabled>>

CreateTable(c, arg, ignore_if_exists) ==
    /\ Begin(c, "create_table", <<arg, ignore_if_exists>>)
    /\ identifier' = [identifier EXCEPT ![c] = NoneObj]
    /\ response' = [response EXCEPT ![c] = NoneObj]
    /\ seen' = [seen EXCEPT ![c] = NoneObj]
    /\ calls' = [calls EXCEPT ![c] = <<>>]
    /\ outcome' = [outcome EXCEPT ![c] =
                      Raised(NotImplementedError)]
    /\ pc' = pc
    /\ UNCHANGED <<tbl, db, ver, data_token_enabled>>

(* ---------------------------- remote service --------------------------- *)

DefaultDatabase ==
    [options |-> [owner |-> Declared],
     location |-> LocationValue,
     audit |-> [owner |-> Audited]]

DefaultTable ==
    [name |-> TableName,
     schema |-> [fields |-> "cols", options |-> [owner |-> Declared]],
     path |-> PathValue,
     audit |-> [owner |-> Audited],
     is_external |-> FALSE,
     id |-> "u1"]

Toggle(m, k, v) ==
    IF k \in DOMAIN m THEN [x \in DOMAIN m \ {k} |-> m[x]] ELSE (k :> v) @@ m

\* The entries one change of the remote table can lead to.
Changed(t) ==
    IF t = Absent THEN {[DefaultTable EXCEPT !.id = "u2"]}
    ELSE {Absent}
         \cup {[t EXCEPT !.schema.options = Toggle(@, k, Declared)] :
                   k \in TableKeys}
         \cup {[t EXCEPT !.audit = Toggle(@, k, Audited)] : k \in TableKeys}
         \cup {[t EXCEPT !.name =
                   IF @ = TableName THEN BranchedName ELSE TableName]}
         \cup {[t EXCEPT !.is_external = ~@]}

\* Somebody else changes the table on the remote service.
ServerChange ==
    /\ ver < MaxChanges
    /\ tbl' \in Changed(tbl)
    /\ ver' = ver + 1
    /\ UNCHANGED <<db, data_token_enabled, pc, call, identifier, response,
                   seen, fetchVer, metadata, outcome, calls>>

(* ---------------------------- specifications --------------------------- *)

InitCallers ==
    /\ pc = [c \in Callers |-> "idle"]
    /\ call = [c \in Callers |-> NoCall]
    /\ identifier = [c \in Callers |-> NoneObj]
    /\ response = [c \in Callers |-> NoneObj]
    /\ seen = [c \in Callers |-> NoneObj]
    /\ fetchVer = [c \in Callers |-> 0]
    /\ metadata = [c \in Callers |-> NoneObj]
    /\ outcome = [c \in Callers |-> NoOutcome]
    /\ calls = [c \in Callers |-> <<>>]

\* One caller, any captured flag, any state of the remote table or of the
\* remote database (no operation reads both).
Init ==
    /\ \/ tbl \in TableEntries \cup {Absent} /\ db = DefaultDatabase
       \/ tbl = DefaultTable /\ db \in DbEntries \cup {Absent}
    /\ ver = 0
    /\ data_token_enabled \in TokenFlags
    /\ InitCallers

Next ==
    \/ \E arg \in InputArgs : GetTable(MainCaller, arg)
    \/ LoadTableMetadata(MainCaller)
    \/ LoadTableReturn(MainCaller)
    \/ GetDatabase(MainCaller, DbName)
    \/ \E arg \in InputArgs, ignore \in BOOLEAN :
           CreateTable(MainCaller, arg, ignore)

Spec == Init /\ [][Next]_vars

\* alter_database on every change list up to MaxLen.
InitAlter ==
    /\ tbl = DefaultTable
    /\ db = DefaultDatabase
    /\ ver = 0
    /\ data_token_enabled = "False"
    /\ InitCallers

NextAlter ==
    \E changes \in ChangeLists : AlterDatabase(MainCaller, DbName, changes)

SpecAlter == InitAlter /\ [][NextAlter]_vars

\* Concurrent callers of get_table while the remote table changes.
InitConc ==
    /\ tbl = DefaultTable
    /\ db = DefaultDatabase
    /\ ver = 0
    /\ data_token_enabled = "True"
    /\ InitCallers

NextConc ==
    \/ \E c \in Callers, arg \in ConcurrentArgs : GetTable(c, arg)
    \/ \E c \in Callers : LoadTableMetadata(c)
    \/ \E c \in Callers : LoadTableReturn(c)
    \/ ServerChange

SpecConc == InitConc /\ [][NextConc]_vars

(* -------------------------------- claims ------------------------------ *)

Finished(c, op) == pc[c] = "idle" /\ call[c].op = op

\* get_table has returned a table handle to caller c.
TableLoaded(c) == Finished(c, "get_table") /\ outcome[c].kind = "returned"

\* get_database has returned a Database to caller c.
DatabaseLoaded(c) == Finished(c, "get_database") /\ outcome[c].kind = "returned"

TableOptions(c) == outcome[c].value.metadata.schema.options

\* C1 as stated: in the options of a loaded table and in the properties of
\* a loaded database, every key of the response's audit options holds the
\* audit value; nothing the client injects overwrites it.
C1_AuditNeverOverwritten ==
    \A c \in Callers :
        /\ TableLoaded(c) =>
               \A k \in DOMAIN seen[c].audit :
                   TableOptions(c)[k] = seen[c].audit[k]
        /\ DatabaseLoaded(c) =>
               \A k \in DOMAIN seen[c].audit :
                   outcome[c].value.properties[k] = seen[c].audit[k]

\* C1 amended: every audit key holds the audit value in the final options,
\* except the branch key of a table whose response name encodes a branch:
\* that key holds the branch, which is written after the audit options.
C1_AuditWinsExceptBranch ==
    \A c \in Callers :
        /\ TableLoaded(c) =>
               LET branch == get_branch_name(
                       Identifier_create(identifier[c].database, seen[c].name))
               IN  /\ \A k \in DOMAIN seen[c].audit :
                          (k # BRANCH \/ branch = None) =>
                              TableOptions(c)[k] = seen[c].audit[k]
                   /\ branch # None => TableOptions(c)[BRANCH] = branch
        /\ DatabaseLoaded(c) =>
               \A k \in DOMAIN seen[c].audit :
                   outcome[c].value.properties[k] = seen[c].audit[k]

\* A table was loaded whose audit options collide with a declared option,
\* with the path key and with the branch key, under a name without a branch.
C1_Witness ==
    \E c \in Callers :
        /\ TableLoaded(c)
        /\ DOMAIN seen[c].audit = TableKeys
        /\ DOMAIN seen[c].schema.options = TableKeys
        /\ seen[c].name = TableName
        /\ \A k \in TableKeys : TableOptions(c)[k] = Audited

\* C2 as stated: the loaded table's options hold the requested identifier's
\* branch under the branch key when the request carries a branch, and have
\* no branch key when it carries none.
C2_BranchFollowsRequest ==
    \A c \in Callers :
        TableLoaded(c) =>
            IF get_branch_name(identifier[c]) # None
            THEN /\ BRANCH \in DOMAIN TableOptions(c)
                 /\ TableOptions(c)[BRANCH] = get_branch_name(identifier[c])
            ELSE BRANCH \notin DOMAIN TableOptions(c)

\* The metadata of caller c's current get_table has been built.
MetadataBuilt(c) == call[c].op = "get_table" /\ metadata[c] # NoneObj

\* C3: two get_table calls for the same identifier that fetched the same
\* version of the remote table hold equal TableMetadata, and a call leaves
\* the response it was given (its schema options included) as the service
\* returned it.
C3_Idempotent ==
    /\ \A c1, c2 \in Callers :
           (/\ MetadataBuilt(c1) /\ MetadataBuilt(c2)
            /\ identifier[c1] = identifier[c2]
            /\ fetchVer[c1] = fetchVer[c2]) => metadata[c1] = metadata[c2]
    /\ \A c \in Callers : MetadataBuilt(c) => response[c] = seen[c]

\* Two calls for the same identifier were served from the same changed
\* remote state, and the built options differ from the declared ones.
C3_Witness ==
    /\ TableLoaded("c1") /\ TableLoaded("c2")
    /\ identifier["c1"] = identifier["c2"]
    /\ fetchVer["c1"] = fetchVer["c2"] /\ fetchVer["c1"] > 0
    /\ metadata["c1"].schema.options # seen["c1"].schema.options

LastChange(changes, k) ==
    LET at == {i \in 1..Len(changes) : changes[i].key = k}
    IN  IF at = {} THEN 0 ELSE CHOOSE i \in at : \A j \in at : j <= i

\* C5: alter_database issues exactly one remote alter_database call; for
\* every key the last change to it decides (set with that value, removed, or
\* neither), so the forwarded remove-keys and set-properties are disjoint;
\* the two documented examples come out as documented.
C5_AlterDatabaseFold ==
    \A c \in Callers :
        Finished(c, "alter_database") =>
            /\ Len(calls[c]) = 1
            /\ calls[c][1].api = "alter_database"
            /\ calls[c][1].args[1] = call[c].args[1]
            /\ outcome[c] = Returned(NoneObj)
            /\ LET changes == call[c].args[2]
                   remove_keys == calls[c][1].args[2]
                   set_properties == calls[c][1].args[3]
               IN  /\ remove_keys \cap DOMAIN set_properties = {}
                   /\ \A k \in PropertyKeys :
                          LET i == LastChange(changes, k) IN
                          IF i = 0
                          THEN k \notin remove_keys
                               /\ k \notin DOMAIN set_properties
                          ELSE IF changes[i].kind = "Set"
                               THEN /\ k \in DOMAIN set_properties
                                    /\ set_properties[k] = changes[i].value
                                    /\ k \notin remove_keys
                               ELSE /\ k \in remove_keys
                                    /\ k \notin DOMAIN set_properties
                   /\ changes = <<SetProperty("a", 1), RemoveProperty("a"),
                                  SetProperty("b", 2)>>
                          => /\ set_properties = ("b" :> 2)
                             /\ remove_keys = {"a"}
                   /\ changes = <<RemoveProperty("a"), SetProperty("a", 1)>>
                          => /\ set_properties = ("a" :> 1)
                             /\ remove_keys = {}

\* alter_database was called with [Set(a,1), Remove(a), Set(b,2)].
C5_Witness ==
    \E c \in Callers :
        /\ Finished(c, "alter_database")
        /\ call[c].args[2] = <<SetProperty("a", 1), RemoveProperty("a"),
                               SetProperty("b", 2)>>
        /\ calls[c][1].args[2] = {"a"}

\* C6: create_table never returns normally: it raises the unsupported-
\* operation error (ValueError "Not implemented") and issues no remote call.
C6_CreateTableUnsupported ==
    \A c \in Callers :
        call[c].op = "create_table" =>
            /\ pc[c] = "idle"
            /\ outcome[c].kind = "raised"
            /\ ErrorKind(outcome[c].error) = "UnsupportedOperationError"
            /\ calls[c] = <<>>

\* create_table was called with ignore_if_exists set, on an absent table.
C6_Witness ==
    \E c \in Callers :
        /\ Finished(c, "create_table")
        /\ call[c].args[2] = TRUE
        /\ tbl = Absent
        /\ outcome[c].kind = "raised"

\* C7: when the service reports the database (get_database) or the table
\* (get_table) absent, the call ends by raising the matching NotFound error
\* after exactly one remote call: no value is returned, no retry is made.
C7_AbsentRaisesNotFound ==
    \A c \in Callers :
        (call[c].op \in {"get_database", "get_table"} /\ seen[c] = Absent) =>
            /\ pc[c] = "idle"
            /\ outcome[c].kind = "raised"
            /\ outcome[c].error =
                   IF call[c].op = "get_database"
                   THEN DatabaseNotFoundError ELSE TableNotFoundError
            /\ ErrorKind(outcome[c].error) = "NotFoundError"
            /\ Len(calls[c]) = 1

\* get_database met an absent database.
C7_Witness ==
    \E c \in Callers :
        /\ Finished(c, "get_database")
        /\ seen[c] = Absent
        /\ outcome[c] = Raised(DatabaseNotFoundError)

\* C8 as stated: a loaded Database has the location key; it holds the
\* server-reported location when the server-returned options did not have
\* the key, and the value already there when they did.
C8_LocationKeptIfPresent ==
    \A c \in Callers :
        DatabaseLoaded(c) =>
            LET properties == outcome[c].value.properties IN
            /\ DB_LOCATION_PROP \in DOMAIN properties
            /\ properties[DB_LOCATION_PROP] =
                   IF DB_LOCATION_PROP \in DOMAIN seen[c].options
                   THEN seen[c].options[DB_LOCATION_PROP]
                   ELSE seen[c].location

\* C8 amended: a loaded Database has the location key; it holds the
\* server-reported location, whatever the server-returned options had under
\* that key, unless the audit options carry the key, whose value then stands.
C8_LocationInjected ==
    \A c \in Callers :
        DatabaseLoaded(c) =>
            LET properties == outcome[c].value.properties IN
            /\ DB_LOCATION_PROP \in DOMAIN properties
            /\ properties[DB_LOCATION_PROP] =
                   IF DB_LOCATION_PROP \in DOMAIN seen[c].audit
                   THEN seen[c].audit[DB_LOCATION_PROP]
                   ELSE seen[c].location

\* A database was loaded whose server-returned options already had a
\* location, and the reported location took its place.
C8_Witness ==
    \E c \in Callers :
        /\ DatabaseLoaded(c)
        /\ DB_LOCATION_PROP \in DOMAIN seen[c].options
        /\ DB_LOCATION_PROP \notin DOMAIN seen[c].audit
        /\ outcome[c].value.properties[DB_LOCATION_PROP] = LocationValue

\* C9: get_table on a string with an empty database or table segment raises
\* MalformedIdentifierError at once, with no remote call issued.
C9_MalformedBeforeRemote ==
    \A c \in Callers :
        (/\ call[c].op = "get_table"
         /\ call[c].args[1].type = "str"
         /\ call[c].args[1].value \in MalformedStrings) =>
            /\ pc[c] = "idle"
            /\ outcome[c] = Raised(MalformedIdentifierError)
            /\ calls[c] = <<>>

\* get_table was called with "d." (empty table segment).
C9_Witness ==
    \E c \in Callers :
        /\ Finished(c, "get_table")
        /\ call[c].args[1].type = "str"
        /\ call[c].args[1].value = <<"d", ".">>
        /\ outcome[c].kind = "raised"

\* C10: whatever the interleaving, a get_table that built its metadata has
\* issued exactly one remote call, its own, and the metadata is the overlay
\* of the remote entry as it was at that fetch, all fields from that entry.
C10_OwnFetch ==
    \A c \in Callers :
        MetadataBuilt(c) =>
            /\ calls[c] = <<RemoteCall("get_table", <<identifier[c]>>)>>
            /\ metadata[c] =
                   to_table_metadata(get_database_name(identifier[c]), seen[c])
            /\ metadata[c].uuid = seen[c].id
            /\ metadata[c].is_external = seen[c].is_external
            /\ TableLoaded(c) => outcome[c].value.metadata = metadata[c]

\* Two callers hold tables fetched from different remote states, and a
\* third state is current.
C10_Witness ==
    /\ TableLoaded("c1") /\ TableLoaded("c2")
    /\ fetchVer["c1"] # fetchVer["c2"]
    /\ metadata["c1"] # metadata["c2"]
    /\ tbl # seen["c1"] /\ tbl # seen["c2"]

====
